---- MODULE Spec2Model ----
(***************************************************************************)
(* Connection-and-resolution flow of the Deephaven example applications:   *)
(*   src/unnamed/part_001            (App with clientConnected, createTable *)
(*                                    and the unmount effect)               *)
(*   src/app-enterprise/src/App.tsx  (App that logs in right after the      *)
(*                                    client is constructed)                *)
(* JavaScript is single threaded: every action below is one callback or one *)
(* await continuation, run to completion.  The only place that is split is  *)
(* the body of loadTable between client.addEventListener and                *)
(* client.getKnownConfigs: `client` is an external object (typed any), and  *)
(* an announcement it delivers from inside one of these two calls is the    *)
(* "between registration and scan" case.  Timers and React effects cannot   *)
(* run there.                                                               *)
(* Timers are modelled by their state (armed / fired / cleared): "the       *)
(* deadline elapsed" is the timer callback running.                         *)
(***************************************************************************)
EXTENDS Integers, Sequences, FiniteSets, TLC

\* ---- bounds ----
MaxGroups == 3

\* ---- program constants ----
CLIENT_TIMEOUT == 60000
QUERY_TIMEOUT == 10000

\* ---- input domains ----
GroupNames == {"Q1", "Q2"}
QueryValues == {"", "Q1", "Q2"}
TableValues == {"", "T1"}
CreatedLists == {<<>>, <<"t">>, <<"t", "u">>}
ParamKeys == {"queryName", "tableName"}

ParamValues(k) == IF k = "queryName" THEN QueryValues ELSE TableValues

\* window.location.search: each parameter absent, present-but-empty or present
SearchInputs ==
  {s \in UNION {[D -> QueryValues \cup TableValues] : D \in SUBSET ParamKeys} :
     \A k \in DOMAIN s : s[k] \in ParamValues(k)}

VARIABLES
  view,            \* "init" | "mounted" | "gone": lifecycle of the App component
  pc,              \* await point of initApp
  search,          \* URL search parameters
  transport,       \* "connecting" | "connected" | "failed" | "closed"
  conn,            \* the clientConnected promise, its timer and its listener
  loginCalls,      \* number of client.login calls
  load,            \* the loadTable promise, its timer, its listener
  knownConfigs,    \* client.getKnownConfigs(): names of the groups, in order
  compute,         \* createTable: calls, created definitions, getObject calls
  adapterCalls,    \* handles passed to IrisGridModelFactory.makeModel
  model,           \* useState model
  error,           \* useState error
  isLoading,       \* useState isLoading
  disconnectCalls  \* number of client.disconnect calls

vars == <<view, pc, search, transport, conn, loginCalls, load, knownConfigs,
          compute, adapterCalls, model, error, isLoading, disconnectCalls>>

\* ---- values ----
Err(kind, name) == [kind |-> kind, name |-> name]
NoError == Err("none", "")
Handle(kind, group, name) == [kind |-> kind, group |-> group, name |-> name]
NoModel == Handle("none", 0, "")

Min(S) == CHOOSE x \in S : \A y \in S : x <= y

\* URLSearchParams.get: null (<<>>) when absent, else the value (<<v>>)
SearchGet(s, k) == IF k \in DOMAIN s THEN <<s[k]>> ELSE <<>>

\* mutant: a present-but-empty parameter counts as supplied
TruthyPresent(o) == o # <<>>

\* JavaScript truthiness of a string-or-null: null and "" are falsy
Truthy(o) == o # <<>> /\ o[1] # ""

\* clearTimeout: cancels a timer that has not fired, else does nothing
ClearTimeout(t) == IF t = "armed" THEN "cleared" ELSE t

\* ---- clientConnected ----
NoConn == [outcome |-> "none", timer |-> "none", delay |-> 0,
           listener |-> FALSE, handlerRuns |-> 0]

\* mutant: no deadline timer is armed while waiting for the connect signal
clientConnectedNoTimer(isConnected) ==
  IF isConnected
  THEN [NoConn EXCEPT !.outcome = "resolved"]
  ELSE [NoConn EXCEPT !.outcome = "pending", !.listener = TRUE]

\* mutant: the return after resolve() is missing, the timer and the listener
\* are set up although the client is connected
clientConnectedFallThrough(isConnected) ==
  [NoConn EXCEPT !.outcome = IF isConnected THEN "resolved" ELSE "pending",
                 !.timer = "armed", !.delay = CLIENT_TIMEOUT,
                 !.listener = TRUE]

\* the promise executor of clientConnected
clientConnected(isConnected) ==
  IF isConnected
  THEN [NoConn EXCEPT !.outcome = "resolved"]
  ELSE [NoConn EXCEPT !.outcome = "pending", !.timer = "armed",
                      !.delay = CLIENT_TIMEOUT, !.listener = TRUE]

\* the EVENT_CONNECT listener: resolve(); clearTimeout(timer)
connectHandler(c) ==
  [c EXCEPT !.outcome = IF @ = "pending" THEN "resolved" ELSE @,
            !.timer = ClearTimeout(@),
            !.handlerRuns = @ + 1]

\* the setTimeout callback of clientConnected: reject(...)
connectTimeout(c) ==
  [c EXCEPT !.outcome = IF @ = "pending" THEN "rejected" ELSE @,
            !.timer = "fired"]

\* ---- loadTable ----
NoLoad == [calls |-> 0, queryName |-> "", tableName |-> "",
           outcome |-> "none", timer |-> "none", delay |-> 0,
           listener |-> FALSE, listenerCalls |-> 0,
           resolveCalls |-> 0, rejectCalls |-> 0,
           rejection |-> NoError, requests |-> <<>>,
           scanned |-> FALSE, initialQueries |-> 0]

\* mutant: the last match is taken instead of the first
FindLast(queries, configs, name) ==
  LET hits == {i \in 1..Len(queries) : configs[queries[i]] = name}
  IN IF hits = {} THEN 0
     ELSE queries[CHOOSE x \in hits : \A y \in hits : x >= y]

\* queries.find((query) => query.name === queryName): first match, 0 if none.
\* A query is identified by its position in knownConfigs.
Find(queries, configs, name) ==
  LET hits == {i \in 1..Len(queries) : configs[queries[i]] = name}
  IN IF hits = {} THEN 0 ELSE queries[Min(hits)]

\* mutant: the listener is left registered after a match
resolveIfQueryFoundKeepListener(a, queries, configs) ==
  LET m == Find(queries, configs, a.queryName)
  IN IF m = 0 THEN a
     ELSE [a EXCEPT !.outcome = IF @ = "pending" THEN "resolved" ELSE @,
                    !.resolveCalls = @ + 1,
                    !.requests = Append(@, [group |-> m, table |-> a.tableName]),
                    !.timer = ClearTimeout(@)]

\* mutant: removeListener toggles the registration instead of removing it
resolveIfQueryFoundToggle(a, queries, configs) ==
  LET m == Find(queries, configs, a.queryName)
  IN IF m = 0 THEN a
     ELSE [a EXCEPT !.outcome = IF @ = "pending" THEN "resolved" ELSE @,
                    !.resolveCalls = @ + 1,
                    !.requests = Append(@, [group |-> m, table |-> a.tableName]),
                    !.timer = ClearTimeout(@),
                    !.listener = ~@]

\* mutant: the deadline timer is not cleared after a match
resolveIfQueryFoundKeepTimer(a, queries, configs) ==
  LET m == Find(queries, configs, a.queryName)
  IN IF m = 0 THEN a
     ELSE [a EXCEPT !.outcome = IF @ = "pending" THEN "resolved" ELSE @,
                    !.resolveCalls = @ + 1,
                    !.requests = Append(@, [group |-> m, table |-> a.tableName]),
                    !.listener = FALSE]

\* resolve(matchingQuery.getTable(tableName)); clearTimeout; removeListener
resolveIfQueryFound(a, queries, configs) ==
  LET m == Find(queries, configs, a.queryName)
  IN IF m = 0 THEN a
     ELSE [a EXCEPT !.outcome = IF @ = "pending" THEN "resolved" ELSE @,
                    !.resolveCalls = @ + 1,
                    !.requests = Append(@, [group |-> m, table |-> a.tableName]),
                    !.timer = ClearTimeout(@),
                    !.listener = FALSE]

\* mutant: the listener scans an empty list instead of [event.detail]
listenerNoDetail(a, detail, configs) ==
  resolveIfQueryFound([a EXCEPT !.listenerCalls = @ + 1], <<>>, configs)

\* listener(event): addedQueries = [event.detail]
listener(a, detail, configs) ==
  resolveIfQueryFound([a EXCEPT !.listenerCalls = @ + 1], <<detail>>, configs)

\* mutant: the deadline callback rejects but leaves the listener registered
timeoutCallbackKeepListener(a) ==
  [a EXCEPT !.timer = "fired",
            !.rejectCalls = @ + 1,
            !.outcome = IF @ = "pending" THEN "timedout" ELSE @,
            !.rejection = IF a.outcome = "pending"
                          THEN Err("QueryNotFound", a.queryName) ELSE @]

\* the setTimeout callback of loadTable: reject(Error(`Query not found,
\* ${queryName}`)); removeListener()
timeoutCallback(a) ==
  [a EXCEPT !.timer = "fired",
            !.rejectCalls = @ + 1,
            !.outcome = IF @ = "pending" THEN "timedout" ELSE @,
            !.rejection = IF a.outcome = "pending"
                          THEN Err("QueryNotFound", a.queryName) ELSE @,
            !.listener = FALSE]

\* start of the promise executor: the deadline timer is armed
StartLoad(a, q, t) ==
  [a EXCEPT !.calls = @ + 1, !.queryName = q, !.tableName = t,
            !.outcome = "pending", !.timer = "armed", !.delay = QUERY_TIMEOUT]

\* mutant: the snapshot is read before the listener is registered
LoadTableStepsScanFirst == <<"getKnownConfigs", "addEventListener">>

\* the order of the two client calls that end the promise executor
LoadTableSteps == <<"addEventListener", "getKnownConfigs">>

\* one of the two client calls, with what loadTable does with its result;
\* initialQueries is the snapshot, a prefix of the known configs (its length)
LoadOp(op, a, configs) ==
  IF op = "addEventListener"
  THEN [a EXCEPT !.listener = TRUE]
  ELSE resolveIfQueryFound([a EXCEPT !.scanned = TRUE,
                                     !.initialQueries = Len(configs)],
                           [i \in 1..Len(configs) |-> i], configs)

\* mutant: the catch block does not call setError
FailNoError(e) ==
  /\ error' = error
  /\ isLoading' = FALSE
  /\ pc' = "done"

\* ---- initApp: catch (e) { setError(`${e}`) }; setIsLoading(false) ----
Fail(e) ==
  /\ error' = e
  /\ isLoading' = FALSE
  /\ pc' = "done"

NoCompute == [createCalls |-> 0, executed |-> FALSE, created |-> <<>>,
              getObjectCalls |-> <<>>]

Init ==
  /\ view = "init"
  /\ pc = "idle"
  /\ search \in SearchInputs
  /\ transport = "connecting"
  /\ conn = NoConn
  /\ loginCalls = 0
  /\ load = NoLoad
  /\ knownConfigs = <<>>
  /\ compute = NoCompute
  /\ adapterCalls = <<>>
  /\ model = NoModel
  /\ error = NoError
  /\ isLoading = TRUE
  /\ disconnectCalls = 0

\* ---- actions of src/unnamed/part_001 ----

\* first render: the initApp effect runs up to its first await (new dh.Client,
\* setClient, clientConnected); the unmount effect is re-registered with the
\* client (its previous cleanup sees client undefined and does nothing)
Mount ==
  /\ view = "init"
  /\ view' = "mounted"
  /\ \E isConnected \in BOOLEAN :
       /\ transport' = IF isConnected THEN "connected" ELSE "connecting"
       /\ conn' = clientConnected(isConnected)
       /\ IF isConnected
          THEN /\ loginCalls' = loginCalls + 1
               /\ pc' = "login"
          ELSE /\ pc' = "connecting"
               /\ UNCHANGED loginCalls
  /\ UNCHANGED <<search, load, knownConfigs, compute, adapterCalls, model,
                 error, isLoading, disconnectCalls>>

\* the transport connects: client.isConnected, EVENT_CONNECT dispatched once
TransportConnect ==
  /\ view # "init"
  /\ transport = "connecting"
  /\ transport' = "connected"
  /\ IF conn.listener
     THEN /\ conn' = connectHandler(conn)
          /\ IF pc = "connecting" /\ conn.outcome = "pending"
             THEN /\ loginCalls' = loginCalls + 1
                  /\ pc' = "login"
             ELSE UNCHANGED <<loginCalls, pc>>
     ELSE UNCHANGED <<conn, loginCalls, pc>>
  /\ UNCHANGED <<view, search, load, knownConfigs, compute, adapterCalls,
                 model, error, isLoading, disconnectCalls>>

\* the transport reports a connection failure; no code listens for it
TransportFail ==
  /\ view # "init"
  /\ transport = "connecting"
  /\ transport' = "failed"
  /\ UNCHANGED <<view, pc, search, conn, loginCalls, load, knownConfigs,
                 compute, adapterCalls, model, error, isLoading,
                 disconnectCalls>>

\* the CLIENT_TIMEOUT timer fires
ConnectTimeout ==
  /\ conn.timer = "armed"
  /\ conn' = connectTimeout(conn)
  /\ IF pc = "connecting" /\ conn.outcome = "pending"
     THEN Fail(Err("ConnectTimeout", ""))
     ELSE UNCHANGED <<pc, error, isLoading>>
  /\ UNCHANGED <<view, search, transport, loginCalls, load, knownConfigs,
                 compute, adapterCalls, model, disconnectCalls>>

\* client.login resolves; initApp reads the parameters and starts a strategy
LoginOk ==
  /\ pc = "login"
  /\ transport = "connected"
  /\ LET q == SearchGet(search, "queryName")
         t == SearchGet(search, "tableName")
     IN IF Truthy(q) /\ Truthy(t)
        THEN /\ load' = LoadOp(LoadTableSteps[1], StartLoad(load, q[1], t[1]),
                               knownConfigs)
             /\ pc' = "loadScan"
             /\ UNCHANGED compute
        ELSE /\ compute' = [compute EXCEPT !.createCalls = @ + 1]
             /\ pc' = "createConsole"
             /\ UNCHANGED load
  /\ UNCHANGED <<view, search, transport, conn, loginCalls, knownConfigs,
                 adapterCalls, model, error, isLoading, disconnectCalls>>

\* client.login rejects
LoginFail ==
  /\ pc = "login"
  /\ Fail(Err("LoginError", ""))
  /\ UNCHANGED <<view, search, transport, conn, loginCalls, load,
                 knownConfigs, compute, adapterCalls, model, disconnectCalls>>

\* the second client call of loadTable, and the end of the executor
LoadTableScan ==
  /\ pc = "loadScan"
  /\ load' = LoadOp(LoadTableSteps[2], load, knownConfigs)
  /\ pc' = IF load'.outcome = "resolved" THEN "getTable" ELSE "locating"
  /\ UNCHANGED <<view, search, transport, conn, loginCalls, knownConfigs,
                 compute, adapterCalls, model, error, isLoading,
                 disconnectCalls>>

\* the server announces a group: it joins the known configs and
\* EVENT_CONFIG_ADDED is dispatched to the registered listener
Announce ==
  /\ transport = "connected"
  /\ loginCalls > 0
  /\ error.kind # "LoginError"
  /\ Len(knownConfigs) < MaxGroups
  /\ \E name \in GroupNames :
       /\ knownConfigs' = Append(knownConfigs, name)
       /\ load' = IF load.listener
                  THEN listener(load, Len(knownConfigs) + 1, knownConfigs')
                  ELSE load
  /\ pc' = IF pc = "locating" /\ load'.outcome = "resolved"
           THEN "getTable" ELSE pc
  /\ UNCHANGED <<view, search, transport, conn, loginCalls, compute,
                 adapterCalls, model, error, isLoading, disconnectCalls>>

\* the 10 second timer of loadTable fires
LoadTimeout ==
  /\ load.timer = "armed"
  /\ pc # "loadScan"
  /\ load' = timeoutCallback(load)
  /\ IF pc = "locating" /\ load.outcome = "pending"
     THEN Fail(load'.rejection)
     ELSE UNCHANGED <<pc, error, isLoading>>
  /\ UNCHANGED <<view, search, transport, conn, loginCalls, knownConfigs,
                 compute, adapterCalls, model, disconnectCalls>>

\* the getTable request that settled the promise resolves; makeModel is called
GetTableOk ==
  /\ pc = "getTable"
  /\ transport = "connected"
  /\ adapterCalls' = Append(adapterCalls,
                            Handle("table", load.requests[1].group,
                                   load.requests[1].table))
  /\ pc' = "makeModel"
  /\ UNCHANGED <<view, search, transport, conn, loginCalls, load,
                 knownConfigs, compute, model, error, isLoading,
                 disconnectCalls>>

\* the getTable request rejects
GetTableFail ==
  /\ pc = "getTable"
  /\ Fail(Err("GetTableError", load.tableName))
  /\ UNCHANGED <<view, search, transport, conn, loginCalls, load,
                 knownConfigs, compute, adapterCalls, model, disconnectCalls>>

\* createTable: ide.createConsole(config) resolves
CreateConsoleOk ==
  /\ pc = "createConsole"
  /\ transport = "connected"
  /\ pc' = "startSession"
  /\ UNCHANGED <<view, search, transport, conn, loginCalls, load,
                 knownConfigs, compute, adapterCalls, model, error, isLoading,
                 disconnectCalls>>

\* createTable: dhConsole.startSession("python") resolves
StartSessionOk ==
  /\ pc = "startSession"
  /\ transport = "connected"
  /\ pc' = "runImport"
  /\ UNCHANGED <<view, search, transport, conn, loginCalls, load,
                 knownConfigs, compute, adapterCalls, model, error, isLoading,
                 disconnectCalls>>

\* createTable: the first session.runCode resolves
RunImportOk ==
  /\ pc = "runImport"
  /\ transport = "connected"
  /\ pc' = "runCode"
  /\ UNCHANGED <<view, search, transport, conn, loginCalls, load,
                 knownConfigs, compute, adapterCalls, model, error, isLoading,
                 disconnectCalls>>

\* mutant: an empty created list does not throw (definition?.name), and
\* getObject is called with the undefined definition
RunCodeOkNoThrow ==
  /\ pc = "runCode"
  /\ transport = "connected"
  /\ \E created \in CreatedLists :
       compute' = [compute EXCEPT !.executed = TRUE,
                     !.created = created,
                     !.getObjectCalls =
                        Append(@, IF created = <<>> THEN "undefined"
                                  ELSE created[1])]
  /\ pc' = "getObject"
  /\ UNCHANGED <<view, search, transport, conn, loginCalls, load,
                 knownConfigs, adapterCalls, model, error, isLoading,
                 disconnectCalls>>

\* createTable: the second session.runCode resolves with result.changes;
\* definition = created[0]; definition.name throws when created is empty
RunCodeOk ==
  /\ pc = "runCode"
  /\ transport = "connected"
  /\ \E created \in CreatedLists :
       IF created = <<>>
       THEN /\ compute' = [compute EXCEPT !.executed = TRUE,
                                          !.created = created]
            /\ Fail(Err("TypeError", ""))
       ELSE /\ compute' = [compute EXCEPT !.executed = TRUE,
                                          !.created = created,
                             !.getObjectCalls = Append(@, created[1])]
            /\ pc' = "getObject"
            /\ UNCHANGED <<error, isLoading>>
  /\ UNCHANGED <<view, search, transport, conn, loginCalls, load,
                 knownConfigs, adapterCalls, model, disconnectCalls>>

\* createTable: session.getObject(definition) resolves; makeModel is called
GetObjectOk ==
  /\ pc = "getObject"
  /\ transport = "connected"
  /\ adapterCalls' = Append(adapterCalls,
                            Handle("object", 0, compute.getObjectCalls[1]))
  /\ pc' = "makeModel"
  /\ UNCHANGED <<view, search, transport, conn, loginCalls, load,
                 knownConfigs, compute, model, error, isLoading,
                 disconnectCalls>>

ComputeAwaits == {"createConsole", "startSession", "runImport", "runCode",
                  "getObject"}

\* createTable: any of its awaited calls rejects
ComputeFail ==
  /\ pc \in ComputeAwaits
  /\ Fail(Err("ComputeError", pc))
  /\ UNCHANGED <<view, search, transport, conn, loginCalls, load,
                 knownConfigs, compute, adapterCalls, model, disconnectCalls>>

\* IrisGridModelFactory.makeModel resolves: setModel, setIsLoading(false)
MakeModelOk ==
  /\ pc = "makeModel"
  /\ model' = adapterCalls[Len(adapterCalls)]
  /\ isLoading' = FALSE
  /\ pc' = "done"
  /\ UNCHANGED <<view, search, transport, conn, loginCalls, load,
                 knownConfigs, compute, adapterCalls, error, disconnectCalls>>

\* IrisGridModelFactory.makeModel rejects
MakeModelFail ==
  /\ pc = "makeModel"
  /\ Fail(Err("ModelError", ""))
  /\ UNCHANGED <<view, search, transport, conn, loginCalls, load,
                 knownConfigs, compute, adapterCalls, model, disconnectCalls>>

\* mutant: the cleanup of the unmount effect does not disconnect
UnmountNoDisconnect ==
  /\ view = "mounted"
  /\ pc # "loadScan"
  /\ view' = "gone"
  /\ UNCHANGED <<pc, search, transport, conn, loginCalls, load, knownConfigs,
                 compute, adapterCalls, model, error, isLoading,
                 disconnectCalls>>

\* the view is dismissed: the effect cleanup runs client?.disconnect()
Unmount ==
  /\ view = "mounted"
  /\ pc # "loadScan"
  /\ view' = "gone"
  /\ disconnectCalls' = disconnectCalls + 1
  /\ transport' = "closed"
  /\ UNCHANGED <<pc, search, conn, loginCalls, load, knownConfigs, compute,
                 adapterCalls, model, error, isLoading>>

Next ==
  \/ Mount
  \/ TransportConnect
  \/ TransportFail
  \/ ConnectTimeout
  \/ LoginOk
  \/ LoginFail
  \/ LoadTableScan
  \/ Announce
  \/ LoadTimeout
  \/ GetTableOk
  \/ GetTableFail
  \/ CreateConsoleOk
  \/ StartSessionOk
  \/ RunImportOk
  \/ RunCodeOk
  \/ GetObjectOk
  \/ ComputeFail
  \/ MakeModelOk
  \/ MakeModelFail
  \/ Unmount

Spec == Init /\ [][Next]_vars

\* ---- actions of src/app-enterprise/src/App.tsx ----

\* first render: new dh.Client, then client.login at once (no clientConnected)
MountEnterprise ==
  /\ view = "init"
  /\ view' = "mounted"
  /\ loginCalls' = loginCalls + 1
  /\ pc' = "login"
  /\ UNCHANGED <<search, transport, conn, load, knownConfigs, compute,
                 adapterCalls, model, error, isLoading, disconnectCalls>>

\* client.login resolves; createTable of this application only throws
LoginOkEnterprise ==
  /\ pc = "login"
  /\ transport = "connected"
  /\ LET q == SearchGet(search, "queryName")
         t == SearchGet(search, "tableName")
     IN IF Truthy(q) /\ Truthy(t)
        THEN /\ load' = LoadOp(LoadTableSteps[1], StartLoad(load, q[1], t[1]),
                               knownConfigs)
             /\ pc' = "loadScan"
             /\ UNCHANGED <<compute, error, isLoading>>
        ELSE /\ compute' = [compute EXCEPT !.createCalls = @ + 1]
             /\ Fail(Err("NotImplemented", ""))
             /\ UNCHANGED load
  /\ UNCHANGED <<view, search, transport, conn, loginCalls, knownConfigs,
                 adapterCalls, model, disconnectCalls>>

\* the view is dismissed: this application has no unmount effect
UnmountEnterprise ==
  /\ view = "mounted"
  /\ pc # "loadScan"
  /\ view' = "gone"
  /\ UNCHANGED <<pc, search, transport, conn, loginCalls, load, knownConfigs,
                 compute, adapterCalls, model, error, isLoading,
                 disconnectCalls>>

NextEnterprise ==
  \/ MountEnterprise
  \/ TransportConnect
  \/ TransportFail
  \/ LoginOkEnterprise
  \/ LoginFail
  \/ LoadTableScan
  \/ Announce
  \/ LoadTimeout
  \/ GetTableOk
  \/ GetTableFail
  \/ MakeModelOk
  \/ MakeModelFail
  \/ UnmountEnterprise

SpecEnterprise == Init /\ [][NextEnterprise]_vars

\* ---- helpers of the properties ----
AllQueries == [i \in 1..Len(knownConfigs) |-> i]
Matches == {i \in 1..Len(knownConfigs) : knownConfigs[i] = load.queryName}
Settled == load.outcome \in {"resolved", "timedout"}
Present(k) == k \in DOMAIN search
NonEmpty(k) == k \in DOMAIN search /\ search[k] # ""
StrategyChosen == load.calls + compute.createCalls > 0

\* C1: no missed announcement. Once the executor of loadTable has finished,
\* an attempt that is still waiting (promise pending or deadline timer armed)
\* knows of no group named queryName: every such group, whether it was in the
\* snapshot, announced between the registration and the scan, or announced
\* later, made the attempt resolve.
C1_NoMissedAnnouncement ==
  (load.calls > 0 /\ pc # "loadScan"
     /\ (load.outcome = "pending" \/ load.timer = "armed"))
  => Find(AllQueries, knownConfigs, load.queryName) = 0

\* C1 witness: the matching group was delivered to the listener between the
\* registration and the scan, and the scan found it again
C1_Witness ==
  /\ pc = "getTable"
  /\ load.listenerCalls > 0
  /\ load.resolveCalls = 2

C2_Outcome ==
  load.calls > 0 =>
    /\ ~(load.resolveCalls > 0 /\ load.rejectCalls > 0)
    /\ (load.outcome = "resolved") = (load.resolveCalls > 0)
    /\ (load.outcome = "timedout") = (load.rejectCalls > 0)
    /\ (load.timer = "fired" => load.outcome # "pending")
    /\ (Settled => ~load.listener /\ load.timer # "armed")

C2_NoLaterCall ==
  Settled => /\ load'.listenerCalls = load.listenerCalls
             /\ load'.outcome = load.outcome

\* C2: one loadTable attempt either resolves with a table request or is
\* rejected by the deadline, never both, and not neither once the deadline
\* callback has run; on both paths the listener is removed and the timer is
\* no longer armed, and no later announcement invokes the listener or changes
\* the outcome.
C2_ExactlyOneOutcome == []C2_Outcome /\ [][C2_NoLaterCall]_vars

\* C2 witness: resolved by the first announcement; two more groups with the
\* same name were announced afterwards and the listener did not run again
C2_Witness ==
  /\ load.outcome = "resolved"
  /\ load.listenerCalls = 1
  /\ load.resolveCalls = 1
  /\ Len(knownConfigs) >= 3
  /\ Cardinality(Matches) = Len(knownConfigs)

C3_NotFound ==
  load.outcome = "timedout" =>
    /\ load.rejectCalls = 1
    /\ load.resolveCalls = 0
    /\ load.requests = <<>>
    /\ ~load.listener
    /\ load.rejection = Err("QueryNotFound", search["queryName"])
    /\ error = load.rejection
    /\ model = NoModel
    /\ adapterCalls = <<>>

C3_Frozen ==
  load.outcome = "timedout" => load' = load /\ error' = error /\ pc' = pc

\* C3: an attempt whose deadline fires before any group named queryName is
\* known fails exactly once with the not-found error that names queryName;
\* afterwards no announcement (not even one named queryName) calls the
\* listener, requests a table or changes the outcome or the error shown.
C3_NotFoundOnce == []C3_NotFound /\ [][C3_Frozen]_vars

\* C3 witness: the attempt timed out and a group named queryName was
\* announced after that
C3_Witness ==
  /\ load.outcome = "timedout"
  /\ Matches # {}

C4_Disposed ==
  view = "gone" =>
    /\ ~load.listener
    /\ load.timer # "armed"
    /\ disconnectCalls = 1

C4_NoLaterCallback ==
  view = "gone" => /\ load'.rejectCalls = load.rejectCalls
                   /\ load'.listenerCalls = load.listenerCalls

\* C4: after the view is torn down, the listener of a pending loadTable
\* attempt is removed, its timer is cleared and the client is disconnected,
\* and neither the deadline callback nor the listener runs any more.
C4_TeardownDisposes == []C4_Disposed /\ [][C4_NoLaterCallback]_vars

C5_Gate ==
  /\ (conn.handlerRuns > 0 /\ conn.timer # "fired"
        => conn.outcome = "resolved" /\ conn.timer = "cleared")
  /\ (conn.timer = "fired"
        => conn.outcome = "rejected" /\ error = Err("ConnectTimeout", ""))

C5_NoLateHandling ==
  conn.timer = "fired" => conn'.handlerRuns = conn.handlerRuns

\* C5: a connect signal handled before the deadline callback makes
\* clientConnected succeed and cancels the timer; once the deadline callback
\* has run, clientConnected has failed with the connect-timeout error and a
\* later connect signal runs no handler of the attempt.
C5_ConnectGate == []C5_Gate /\ [][C5_NoLateHandling]_vars

\* C6: when the transport has reported a connection failure before the
\* connect deadline, connect has failed with a transport error (it is not
\* still waiting for the deadline).
C6_TransportError ==
  (transport = "failed" /\ conn.timer # "fired")
  => conn.outcome = "rejected" /\ error.kind = "TransportError"

C8_CleanupOnFailure ==
  error # NoError =>
    /\ ~conn.listener
    /\ ~load.listener
    /\ conn.timer # "armed"
    /\ load.timer # "armed"
    /\ disconnectCalls >= 1

Started == <<loginCalls, load.calls + compute.createCalls, Len(adapterCalls)>>

C9_Order ==
  /\ loginCalls <= 1
  /\ load.calls + compute.createCalls <= 1
  /\ Len(adapterCalls) <= 1
  /\ (StrategyChosen => loginCalls = 1)
  /\ (adapterCalls # <<>> =>
        /\ StrategyChosen
        /\ (load.outcome = "resolved" \/ compute.getObjectCalls # <<>>))

C9_Step ==
  /\ (loginCalls' # loginCalls => transport' = "connected")
  /\ (error # NoError => Started' = Started)

\* C9: each stage starts at most once and in order: credentials are
\* submitted only when the client is connected, resolution starts only after
\* login, the adapter is called only with a resolved resource, and after a
\* failure no stage starts.
C9_StagesInOrder == []C9_Order /\ [][C9_Step]_vars

C10_Args ==
  load.calls > 0 => /\ load.queryName = search["queryName"]
                    /\ load.tableName = search["tableName"]

SnapshotMatches == {i \in 1..load.initialQueries : knownConfigs[i] = load.queryName}
ScanDone == load.calls > 0 /\ load.scanned /\ pc # "loadScan"

\* C11: a model and an error are never both set; once loading has finished
\* exactly one of them is set; and the model that is set is the handle that
\* was passed to the adapter, which was obtained from a resolved loadTable
\* attempt or from getObject.
C11_ModelXorError ==
  /\ ~(model # NoModel /\ error # NoError)
  /\ (~isLoading => (model # NoModel) # (error # NoError))
  /\ (model # NoModel =>
        /\ adapterCalls = <<model>>
        /\ pc = "done"
        /\ \/ /\ model.kind = "table"
              /\ load.outcome = "resolved"
              /\ model = Handle("table", load.requests[1].group, load.tableName)
           \/ /\ model.kind = "object"
              /\ compute.getObjectCalls = <<model.name>>)

\* C11 witness: loading finished with a model of a located table
C11_Witness ==
  /\ ~isLoading
  /\ model.kind = "table"
  /\ error = NoError

C12_Scan ==
  (ScanDone /\ SnapshotMatches # {}) =>
    /\ load.outcome = "resolved"
    /\ load.timer = "cleared"
    /\ ~load.listener
    /\ load.rejectCalls = 0
    /\ load.requests[Len(load.requests)]
         = [group |-> Min(SnapshotMatches), table |-> search["tableName"]]
    /\ (load.listenerCalls = 0 => Len(load.requests) = 1)

C12_ScanStep ==
  (pc = "loadScan" /\ load'.scanned
     /\ Find(AllQueries, knownConfigs, load.queryName) # 0)
  => /\ pc' = "getTable"
     /\ load'.outcome = "resolved"
     /\ load'.listenerCalls = load.listenerCalls

\* C12: when the snapshot read by loadTable holds a group named queryName,
\* the attempt is resolved when the scan ends, with no listener call needed,
\* by a getTable(tableName) request to the first such group; the deadline
\* timer is cleared, the listener removed, and the deadline callback never
\* runs for that attempt.
C12_SnapshotResolves == []C12_Scan /\ [][C12_ScanStep]_vars

\* C12 witness: resolved by the scan alone, no listener call
C12_Witness ==
  /\ ScanDone
  /\ SnapshotMatches # {}
  /\ load.listenerCalls = 0
  /\ load.timer = "cleared"

C13_Pending ==
  /\ (ScanDone /\ load.outcome = "pending" =>
        /\ Matches = {}
        /\ load.requests = <<>>
        /\ pc = "locating"
        /\ load.listener
        /\ load.listenerCalls >= Len(knownConfigs) - load.initialQueries)
  /\ (load.outcome = "resolved" => Matches # {})

C13_Event ==
  (pc = "locating" /\ knownConfigs' # knownConfigs) =>
    IF knownConfigs'[Len(knownConfigs')] = load.queryName
    THEN /\ load'.outcome = "resolved"
         /\ pc' = "getTable"
         /\ load'.requests = <<[group |-> Len(knownConfigs'),
                               table |-> load.tableName]>>
    ELSE /\ load'.outcome = "pending"
         /\ pc' = "locating"
         /\ load'.requests = <<>>

\* C13: an attempt whose snapshot holds no group named queryName stays
\* pending after the scan and through every announcement of a group with
\* another name (each is delivered to the listener), and resolves on the
\* first announcement whose name equals queryName, by a request to that
\* group; it is never resolved while no such group is known.
C13_ResolvesOnEvent == []C13_Pending /\ [][C13_Event]_vars

\* C13 witness: resolved by the listener on a later announcement, after an
\* announcement of another name
C13_Witness ==
  /\ load.outcome = "resolved"
  /\ SnapshotMatches = {}
  /\ load.listenerCalls >= 2
  /\ load.resolveCalls = 1
  /\ Cardinality(Matches) = 1

C14_Result ==
  compute.executed =>
    IF compute.created = <<>>
    THEN /\ compute.getObjectCalls = <<>>
         /\ adapterCalls = <<>>
         /\ model = NoModel
         /\ pc = "done"
         /\ ~isLoading
         /\ error = Err("TypeError", "")
    ELSE /\ compute.getObjectCalls = <<compute.created[1]>>
         /\ (adapterCalls # <<>> =>
               adapterCalls = <<Handle("object", 0, compute.created[1])>>)
         /\ (model # NoModel =>
               model = Handle("object", 0, compute.created[1]))

C14_Return ==
  (pc = "getObject" /\ pc' = "makeModel") =>
    adapterCalls' = <<Handle("object", 0, compute.created[1])>>

Disp(a) == <<a.listener, a.timer, a.outcome, a.rejection>>

C15_Again ==
  Settled =>
    Disp(resolveIfQueryFound(load, AllQueries, knownConfigs)) = Disp(load)

C15_Step ==
  Settled => /\ Disp(load') = Disp(load)
             /\ (adapterCalls # <<>> => adapterCalls' = adapterCalls)
             /\ (error # NoError => error' = error)

\* C15: once a loadTable attempt is settled, running its resolve path again
\* (a second matching scan) leaves the listener removed, the timer as it was
\* and the outcome and the rejection unchanged; no step changes them later,
\* the flow is continued once only, and client.disconnect is never called a
\* second time.
C15_DisposalIdempotent ==
  [](C15_Again /\ disconnectCalls <= 1 /\ Len(adapterCalls) <= 1)
    /\ [][C15_Step]_vars

\* C15 witness: the resolve path ran twice (the listener, then the scan) and
\* the flow went on to the adapter once
C15_Witness ==
  /\ load.resolveCalls = 2
  /\ ~load.listener
  /\ load.timer = "cleared"
  /\ Len(adapterCalls) = 1

\* C16: when the snapshot holds several groups named queryName, the scan
\* requests the table from the first of them only: it makes one request, to
\* the group of least index, and none to the other matching groups.
C16_FirstMatchWins ==
  (ScanDone /\ SnapshotMatches # {}) =>
    /\ load.requests[Len(load.requests)].group = Min(SnapshotMatches)
    /\ Len(load.requests) = load.resolveCalls
    /\ (load.listenerCalls = 0 =>
          {load.requests[i].group : i \in 1..Len(load.requests)}
             = {Min(SnapshotMatches)})

\* C16 witness: two groups of the snapshot match and one request was made
C16_Witness ==
  /\ ScanDone
  /\ Cardinality(SnapshotMatches) >= 2
  /\ load.listenerCalls = 0
  /\ Len(load.requests) = 1

\* C17: one loadTable attempt requests getTable at most once.
C17_OneGetTable == Len(load.requests) <= 1

\* ---- liveness: timers fire, the executor of loadTable runs to its end,
\* and every server round trip settles ----
Fairness ==
  /\ WF_vars(ConnectTimeout)
  /\ WF_vars(LoadTimeout)
  /\ WF_vars(LoadTableScan)
  /\ WF_vars(LoginOk \/ LoginFail)
  /\ WF_vars(GetTableOk \/ GetTableFail)
  /\ WF_vars(CreateConsoleOk \/ StartSessionOk \/ RunImportOk \/ RunCodeOk
               \/ GetObjectOk \/ ComputeFail)
  /\ WF_vars(MakeModelOk \/ MakeModelFail)

SpecLive == Init /\ [][Next]_vars /\ Fairness

Finished == ~isLoading /\ (model # NoModel \/ error # NoError)

\* C18: every flow that was started eventually leaves the loading state,
\* with a model or an error set, provided each server round trip settles;
\* the waits for the connect signal and for a matching group end by their
\* timers at the latest.
C18_LeavesLoading == (view # "init") ~> Finished

\* C18 witness: the connect signal never came (the transport failed) and the
\* flow left the loading state by the connect timer
C18_Witness ==
  /\ transport = "failed"
  /\ Finished
  /\ error = Err("ConnectTimeout", "")

C19_NoTimer ==
  (conn.outcome = "resolved" /\ conn.handlerRuns = 0) =>
    /\ conn.timer = "none"
    /\ ~conn.listener
    /\ loginCalls = 1

C19_NoLaterTimeout ==
  (conn.outcome = "resolved" /\ conn.handlerRuns = 0) => conn' = conn

\* C19: when the client is connected at the call, clientConnected succeeds
\* at once (login is called in the same step), no timer is armed and no
\* connect listener is registered, and nothing of the attempt changes later.
C19_AlreadyConnected == []C19_NoTimer /\ [][C19_NoLaterTimeout]_vars

\* C19 witness: the flow finished after an immediate clientConnected
C19_Witness ==
  /\ conn.outcome = "resolved"
  /\ conn.handlerRuns = 0
  /\ conn.timer = "none"
  /\ pc = "done"

====
